---- MODULE Spec2Model ----
(***************************************************************************)
(* Model of the UAT scheduling optimiser: the form handler of app.py and   *)
(* find_optimal_schedule of solver.py (model construction for CP-SAT, the  *)
(* solve, the extraction of the schedule table and of total_days).         *)
(*                                                                         *)
(* Conventions.  Python indexes personnel from 0; the model indexes from   *)
(* 1, so person index p here is index p - 1 there.  A timestamp            *)
(* 'YYYY-MM-DD HH:MM' is the record [day, hour] (the minutes are always    *)
(* 00 since offsets are whole hours), with days counted from an arbitrary  *)
(* epoch.  total_days, a float in the code, is the exact rational          *)
(* [num, den]; the division by 24.0 is exact in IEEE double for every      *)
(* objective value in 0..horizon.                                          *)
(***************************************************************************)
EXTENDS Integers, Sequences, FiniteSets, TLC

VARIABLES
    personnel,      \* personnel_data / personnel: sequence of [name, workstream]
    rows,           \* scenario_df: the scenario table as typed in the editor
    start_date,     \* the reference date (a day number)
    scenarios,      \* scenario_data / scenarios: the parsed scenario list
    entry,          \* who called find_optimal_schedule: "app", "direct" or "none"
    pc,             \* position in the program
    all_subtasks,   \* solver.py all_subtasks (with the allowed persons of each)
    status,         \* the status solver.Solve returned
    solution,       \* the solved values of the model's variables
    final_results,  \* the rows of the returned DataFrame
    total_days,     \* the second returned value (None when no schedule)
    ui              \* what the form shows after the click

vars == <<personnel, rows, start_date, scenarios, entry, pc, all_subtasks,
          status, solution, final_results, total_days, ui>>

-----------------------------------------------------------------------------
(* Bounds of the explored inputs *)

MaxPersons == 2

MaxScenarios == 2

MaxReq == 2

(* Program constants *)

earliest_start == 0

\* The horizon with the days counted inclusively.
horizon_61days == 61 * 24

horizon == 60 * 24

HoursPerDay == 24

\* Python's None, as the second returned value.
None == [none |-> TRUE]

NoSolution == [start |-> <<>>, end |-> <<>>, person |-> <<>>, max_end_time |-> 0]

-----------------------------------------------------------------------------
(* Values the inputs are drawn from *)

PersonNames == <<"Alice", "Bob", "Charlie">>

ScenarioNames == <<"P2P End-to-End", "Invoice Posting", "Goods Receipt">>

Workstreams == {"Finance", "IT"}

Durations == {0, 1, 2}

StartDates == {3}

\* A cell that is a Python literal but not a list: str(row[...]) is kept whole.
ScalarText == "'Finance'"

\* Byte order of the strings the program sorts.
SortOrder == <<"'Finance'", "Alice", "Bob", "Charlie", "Finance", "IT", "Logistics">>

Min(a, b) == IF a <= b THEN a ELSE b

Max(a, b) == IF a >= b THEN a ELSE b

SetMax(S) == CHOOSE x \in S : \A y \in S : y <= x

SeqsUpTo(S, n) == UNION {[1..k -> S] : k \in 0..n}

FirstNames(names, n) == {names[i] : i \in 1..Min(n, Len(names))}

IndexOf(names, x) == CHOOSE i \in 1..Len(names) : names[i] = x

\* Names are interchangeable, so the i-th row only uses one of the first i names:
\* every pattern of equal and different names is still present.
CanonicalNames(seq, names) ==
    \A i \in 1..Len(seq) : IndexOf(names, seq[i].name) <= i

PersonnelLists ==
    {p \in SeqsUpTo([name : FirstNames(PersonNames, MaxPersons),
                     workstream : Workstreams], MaxPersons) :
        CanonicalNames(p, PersonNames)}

ListCell(items) == [kind |-> "list", items |-> items, text |-> "[...]"]

MalformedCell == [kind |-> "malformed", items |-> <<>>, text |-> "Finance, IT"]

ScalarCell == [kind |-> "scalar", items |-> <<>>, text |-> ScalarText]

RawCells ==
    {ListCell(items) : items \in SeqsUpTo(Workstreams, MaxReq)}
        \cup {MalformedCell, ScalarCell}

RowLists ==
    {r \in SeqsUpTo([name : FirstNames(ScenarioNames, MaxScenarios),
                     duration_hours : Durations,
                     required_workstreams : RawCells], MaxScenarios) :
        CanonicalNames(r, ScenarioNames)}

-----------------------------------------------------------------------------
(* app.py: the parse of the scenario table *)

\* ast.literal_eval of the cell, then the isinstance test and the except clause.
ParseWorkstreams(cell) ==
    CASE cell.kind = "list" -> cell.items
      [] cell.kind = "scalar" -> <<cell.text>>
      [] OTHER -> <<>>

ParseRows(rs) ==
    [i \in 1..Len(rs) |->
        [name |-> rs[i].name,
         duration_hours |-> rs[i].duration_hours,
         required_workstreams |-> ParseWorkstreams(rs[i].required_workstreams)]]

-----------------------------------------------------------------------------
(* solver.py: model construction *)

\* people_map: a dict comprehension, so a repeated name keeps its last index.
people_map(name) ==
    SetMax({i \in 1..Len(personnel) : personnel[i].name = name})

\* valid_people_indices, as the set of its elements.
valid_people_indices(required_workstream) ==
    {people_map(personnel[i].name) :
        i \in {j \in 1..Len(personnel) :
                  personnel[j].workstream = required_workstream}}

Subtask(scenario_idx, ws_idx) ==
    LET scenario == scenarios[scenario_idx]
        required_workstream == scenario.required_workstreams[ws_idx]
    IN  [scenario_idx |-> scenario_idx,
         scenario_name |-> scenario.name,
         workstream |-> required_workstream,
         duration |-> scenario.duration_hours,
         \* AddAllowedAssignments is added only for a non-empty list
         restricted |-> valid_people_indices(required_workstream) # {},
         allowed |-> valid_people_indices(required_workstream)]

RECURSIVE SubtasksFrom(_)
SubtasksFrom(scenario_idx) ==
    IF scenario_idx > Len(scenarios) THEN <<>>
    ELSE [ws_idx \in 1..Len(scenarios[scenario_idx].required_workstreams) |->
             Subtask(scenario_idx, ws_idx)]
         \o SubtasksFrom(scenario_idx + 1)

-----------------------------------------------------------------------------
(* solver.py: the constraints of the CP-SAT model.  An assignment gives a  *)
(* value to start_var and end_var of every scenario, to                    *)
(* assigned_person_var of every sub-task and to max_end_time.              *)

ScenarioIdx == 1..Len(scenarios)

SubtaskIdx == 1..Len(all_subtasks)

PersonIdx == 1..Len(personnel)

\* NewIntVar(earliest_start, horizon, ...)
InTimeDomain(v) == earliest_start <= v /\ v <= horizon

\* model.Add(end_var == start_var + duration_hours)
EndLinked(a, s) == a.end[s] = a.start[s] + scenarios[s].duration_hours

\* The person variable without its AddAllowedAssignments.
PersonAllowed_Unrestricted(a, t) == a.person[t] \in PersonIdx

\* NewIntVar(0, len(personnel) - 1, ...) and AddAllowedAssignments
PersonAllowed(a, t) ==
    /\ a.person[t] \in PersonIdx
    /\ all_subtasks[t].restricted => a.person[t] \in all_subtasks[t].allowed

\* is_assigned_to_person: both OnlyEnforceIf constraints make it this equality.
is_assigned_to_person(a, t, person_index) == a.person[t] = person_index

SubtaskStart(a, t) == a.start[all_subtasks[t].scenario_idx]

SubtaskEnd(a, t) == a.end[all_subtasks[t].scenario_idx]

\* The intervals ordered by their starts alone.
Disjoint_ByStart(a, t1, t2) ==
    \/ SubtaskStart(a, t1) <= SubtaskStart(a, t2)
    \/ SubtaskStart(a, t2) <= SubtaskStart(a, t1)

\* Two intervals of one NoOverlap constraint: one ends before the other starts.
Disjoint(a, t1, t2) ==
    \/ SubtaskEnd(a, t1) <= SubtaskStart(a, t2)
    \/ SubtaskEnd(a, t2) <= SubtaskStart(a, t1)

\* AddNoOverlap(person_intervals): over the optional intervals that are present.
NoOverlap(a, person_index) ==
    \A t1, t2 \in SubtaskIdx :
        (/\ t1 < t2
         /\ is_assigned_to_person(a, t1, person_index)
         /\ is_assigned_to_person(a, t2, person_index))
            => Disjoint(a, t1, t2)

\* all_end_vars: the end variables of the scenarios that have a sub-task.
all_end_vars == {all_subtasks[t].scenario_idx : t \in SubtaskIdx}

\* AddMaxEquality(max_end_time, all_end_vars): no value is the maximum of nothing.
MaxEquality(a) ==
    /\ InTimeDomain(a.max_end_time)
    /\ \E s \in all_end_vars : a.max_end_time = a.end[s]
    /\ \A s \in all_end_vars : a.end[s] <= a.max_end_time

Satisfies(a) ==
    /\ \A s \in ScenarioIdx :
          InTimeDomain(a.start[s]) /\ InTimeDomain(a.end[s]) /\ EndLinked(a, s)
    /\ \A t \in SubtaskIdx : PersonAllowed(a, t)
    /\ \A person_index \in PersonIdx : NoOverlap(a, person_index)
    /\ MaxEquality(a)

-----------------------------------------------------------------------------
(* The solve.  solver.Solve runs CP-SAT with its default parameters (no    *)
(* time limit), so it ends with a proven optimum or without a solution;    *)
(* which optimum it returns is not determined.                             *)

RECURSIVE SeqProduct(_)
SeqProduct(sets) ==
    IF sets = <<>> THEN {<<>>}
    ELSE {<<x>> \o rest : x \in Head(sets), rest \in SeqProduct(Tail(sets))}

RECURSIVE SumDurations(_)
SumDurations(s) ==
    IF s > Len(scenarios) THEN 0
    ELSE scenarios[s].duration_hours + SumDurations(s + 1)

TotalDuration == SumDurations(1)

\* The starts tried for scenario s.  Shifting every scenario of a satisfying
\* assignment left, in start order, to the earliest free hour gives another one
\* whose starts are sums of durations; so a solution exists iff one exists with
\* every start <= TotalDuration, the optimum is at most TotalDuration, and every
\* optimal assignment has the scenarios of all_end_vars inside this window.  The
\* variables of a scenario without sub-tasks are bound by their domain alone and
\* never read back by the program; of their values only those in the window are
\* explored.
SearchStarts(s) ==
    LET d == scenarios[s].duration_hours
    IN  {st \in earliest_start..Min(horizon - d, TotalDuration) : TRUE}

PersonDomain(t) ==
    IF all_subtasks[t].restricted THEN all_subtasks[t].allowed ELSE PersonIdx

Assignment(st, pa) ==
    LET en == [s \in ScenarioIdx |-> st[s] + scenarios[s].duration_hours]
    IN  [start |-> st,
         end |-> en,
         person |-> pa,
         max_end_time |->
            IF all_end_vars = {} THEN earliest_start
            ELSE SetMax({en[s] : s \in all_end_vars})]

Candidates ==
    {Assignment(st, pa) :
        st \in SeqProduct([s \in ScenarioIdx |-> SearchStarts(s)]),
        pa \in SeqProduct([t \in SubtaskIdx |-> PersonDomain(t)])}

Solutions == {a \in Candidates : Satisfies(a)}

\* model.Minimize(max_end_time)
OptimalSolutions ==
    LET sols == Solutions
    IN  {a \in sols : \A b \in sols : a.max_end_time <= b.max_end_time}

-----------------------------------------------------------------------------
(* solver.py: the extraction of the schedule *)

Rank(x) == IndexOf(SortOrder, x)

Sorted(seq) == SortSeq(seq, LAMBDA x, y : Rank(x) < Rank(y))

\* start_date + timedelta(hours = offset), then strftime('%Y-%m-%d %H:%M')
Timestamp(offset) ==
    [day |-> start_date + (offset \div HoursPerDay), hour |-> offset % HoursPerDay]

\* The keys of scenario_results in insertion order.
RECURSIVE ResultKeys(_, _)
ResultKeys(t, seen) ==
    IF t > Len(all_subtasks) THEN <<>>
    ELSE IF all_subtasks[t].scenario_name \in seen THEN ResultKeys(t + 1, seen)
    ELSE <<all_subtasks[t].scenario_name>>
             \o ResultKeys(t + 1, seen \cup {all_subtasks[t].scenario_name})

SubtasksNamed(scenario_name) ==
    SelectSeq([t \in SubtaskIdx |-> t],
              LAMBDA t : all_subtasks[t].scenario_name = scenario_name)

\* The record of one key: created from the first sub-task of that name, then
\* every sub-task of that name appends its person, and the lists are sorted.
ResultRecord(scenario_name) ==
    LET ts == SubtasksNamed(scenario_name)
        first == ts[1]
    IN  [Scenario |-> scenario_name,
         Duration |-> all_subtasks[first].duration,
         StartTime |-> Timestamp(SubtaskStart(solution, first)),
         EndTime |-> Timestamp(SubtaskEnd(solution, first)),
         AssignedPersons |->
            Sorted([k \in 1..Len(ts) |-> personnel[solution.person[ts[k]]].name]),
         Workstreams |->
            Sorted([k \in 1..Len(ts) |->
                       personnel[solution.person[ts[k]]].workstream])]

ExtractedResults ==
    LET keys == ResultKeys(1, {})
    IN  [k \in 1..Len(keys) |-> ResultRecord(keys[k])]

-----------------------------------------------------------------------------
(* The program *)

Init ==
    /\ personnel \in PersonnelLists
    /\ rows \in RowLists
    /\ start_date \in StartDates
    /\ scenarios = <<>>
    /\ entry = "none"
    /\ pc = "form"
    /\ all_subtasks = <<>>
    /\ status = "UNKNOWN"
    /\ solution = NoSolution
    /\ final_results = <<>>
    /\ total_days = None
    /\ ui = "form"

\* app.py, the button: the table is parsed, the lists are validated, and the
\* solver is called unless one of them is empty.
Click ==
    /\ pc = "form"
    /\ scenarios' = ParseRows(rows)
    /\ IF personnel = <<>> \/ ParseRows(rows) = <<>>
          THEN ui' = "empty_input_error" /\ pc' = "done" /\ entry' = entry
          ELSE ui' = "solving" /\ pc' = "called" /\ entry' = "app"
    /\ UNCHANGED <<personnel, rows, start_date, all_subtasks, status, solution,
                   final_results, total_days>>

\* find_optimal_schedule called by another caller, with the lists the table
\* denotes: the function itself tests nothing about its arguments.
CallDirect ==
    /\ pc = "form"
    /\ \A i \in 1..Len(rows) : rows[i].required_workstreams.kind = "list"
    /\ scenarios' = ParseRows(rows)
    /\ entry' = "direct"
    /\ pc' = "called"
    /\ UNCHANGED <<personnel, rows, start_date, all_subtasks, status, solution,
                   final_results, total_days, ui>>

\* solver.py sections 1 to 3: variables, constraints and objective.
BuildModel ==
    /\ pc = "called"
    /\ all_subtasks' = SubtasksFrom(1)
    /\ pc' = "built"
    /\ UNCHANGED <<personnel, rows, start_date, scenarios, entry, status,
                   solution, final_results, total_days, ui>>

\* status = solver.Solve(model)
Solve ==
    /\ pc = "built"
    /\ pc' = "solved"
    /\ LET opt == OptimalSolutions
       IN  IF opt = {}
              THEN status' = "INFEASIBLE" /\ solution' = NoSolution
              ELSE status' = "OPTIMAL" /\ solution' \in opt
    /\ UNCHANGED <<personnel, rows, start_date, scenarios, entry, all_subtasks,
                   final_results, total_days, ui>>

\* The branch of status OPTIMAL or FEASIBLE.
ExtractResults ==
    /\ pc = "solved"
    /\ status \in {"OPTIMAL", "FEASIBLE"}
    /\ final_results' = ExtractedResults
    /\ total_days' = [num |-> solution.max_end_time, den |-> HoursPerDay]
    /\ pc' = "returned"
    /\ UNCHANGED <<personnel, rows, start_date, scenarios, entry, all_subtasks,
                   status, solution, ui>>

\* return pd.DataFrame(), None
ReturnNoSchedule ==
    /\ pc = "solved"
    /\ status \notin {"OPTIMAL", "FEASIBLE"}
    /\ final_results' = <<>>
    /\ total_days' = None
    /\ pc' = "returned"
    /\ UNCHANGED <<personnel, rows, start_date, scenarios, entry, all_subtasks,
                   status, solution, ui>>

\* app.py after the call: the error for an empty table, or the schedule.
ShowResult ==
    /\ pc = "returned"
    /\ entry = "app"
    /\ ui' = IF final_results = <<>> THEN "no_schedule_error" ELSE "schedule_shown"
    /\ pc' = "done"
    /\ UNCHANGED <<personnel, rows, start_date, scenarios, entry, all_subtasks,
                   status, solution, final_results, total_days>>

Next ==
    \/ Click
    \/ CallDirect
    \/ BuildModel
    \/ Solve
    \/ ExtractResults
    \/ ReturnNoSchedule
    \/ ShowResult

Spec == Init /\ [][Next]_vars

-----------------------------------------------------------------------------
(* The form's starter data, edited only by deleting rows *)

default_personnel_data ==
    <<[name |-> "Alice", workstream |-> "Finance"],
      [name |-> "Bob", workstream |-> "Logistics"],
      [name |-> "Charlie", workstream |-> "IT"]>>

default_scenario_data ==
    <<[name |-> "P2P End-to-End", duration_hours |-> 12,
       required_workstreams |-> ListCell(<<"Finance", "Logistics", "IT">>)],
      [name |-> "Invoice Posting", duration_hours |-> 6,
       required_workstreams |-> ListCell(<<"Finance">>)]>>

SubSeqs(seq) ==
    {SelectSeq([i \in 1..Len(seq) |-> [idx |-> i, val |-> seq[i]]],
               LAMBDA e : e.idx \in keep) : keep \in SUBSET (1..Len(seq))}

Values(seq) == [i \in 1..Len(seq) |-> seq[i].val]

InitCalibration ==
    /\ personnel \in {Values(p) : p \in SubSeqs(default_personnel_data)}
    /\ rows \in {Values(r) : r \in SubSeqs(default_scenario_data)}
    /\ start_date \in StartDates
    /\ scenarios = <<>>
    /\ entry = "none"
    /\ pc = "form"
    /\ all_subtasks = <<>>
    /\ status = "UNKNOWN"
    /\ solution = NoSolution
    /\ final_results = <<>>
    /\ total_days = None
    /\ ui = "form"

SpecCalibration == InitCalibration /\ [][Next]_vars

-----------------------------------------------------------------------------
(* Inputs at the edge of the planning horizon: one workstream, one or two  *)
(* persons who have it, scenarios as long as the horizon or nearly so      *)

HorizonDurations == {1, horizon - 1, horizon, horizon + 1}

HorizonPersonnel ==
    {<<>>,
     <<[name |-> "Alice", workstream |-> "Finance"]>>,
     <<[name |-> "Alice", workstream |-> "Finance"],
       [name |-> "Bob", workstream |-> "Finance"]>>}

HorizonRows ==
    {r \in SeqsUpTo([name : FirstNames(ScenarioNames, 2),
                     duration_hours : HorizonDurations,
                     required_workstreams : {ListCell(<<"Finance">>)}], 2) :
        CanonicalNames(r, ScenarioNames)}

InitHorizon ==
    /\ personnel \in HorizonPersonnel
    /\ rows \in HorizonRows
    /\ start_date \in StartDates
    /\ scenarios = <<>>
    /\ entry = "none"
    /\ pc = "form"
    /\ all_subtasks = <<>>
    /\ status = "UNKNOWN"
    /\ solution = NoSolution
    /\ final_results = <<>>
    /\ total_days = None
    /\ ui = "form"

SpecHorizon == InitHorizon /\ [][Next]_vars

-----------------------------------------------------------------------------
(* Vocabulary of the properties *)

\* find_optimal_schedule has returned to its caller.
HasReturned == pc = "returned" \/ (pc = "done" /\ entry = "app")

\* ... and it returned a schedule (the branch of status OPTIMAL or FEASIBLE).
HasSchedule == HasReturned /\ total_days # None

NoScheduleReturned == HasReturned /\ final_results = <<>> /\ total_days = None

PositiveOverlap(a, t1, t2) ==
    Max(SubtaskStart(a, t1), SubtaskStart(a, t2))
        < Min(SubtaskEnd(a, t1), SubtaskEnd(a, t2))

\* The hour offset a written timestamp stands for.
OffsetOf(stamp) == (stamp.day - start_date) * 24 + stamp.hour

Qualified(workstream) ==
    {i \in PersonIdx : personnel[i].workstream = workstream}

Occurrences(s, workstream) ==
    Cardinality({k \in 1..Len(scenarios[s].required_workstreams) :
                    scenarios[s].required_workstreams[k] = workstream})

RequiredBy(s) ==
    {scenarios[s].required_workstreams[k] :
        k \in 1..Len(scenarios[s].required_workstreams)}

ClaimedHorizon == 1440

-----------------------------------------------------------------------------
(* C1: in every returned schedule, two distinct sub-tasks assigned to the  *)
(* same person never overlap with positive measure, whether they belong to *)
(* different scenarios or to the same one.                                 *)
C1_NoDoubleBooking ==
    HasSchedule =>
        \A t1, t2 \in SubtaskIdx :
            (t1 # t2 /\ solution.person[t1] = solution.person[t2])
                => ~PositiveOverlap(solution, t1, t2)

\* A schedule in which one person works on two scenarios of positive length.
C1_Witness ==
    /\ HasSchedule
    /\ \E t1, t2 \in SubtaskIdx :
          /\ all_subtasks[t1].scenario_idx # all_subtasks[t2].scenario_idx
          /\ solution.person[t1] = solution.person[t2]
          /\ all_subtasks[t1].duration >= 1
          /\ all_subtasks[t2].duration >= 1

(* C2: in every returned schedule, the workstream of the person assigned   *)
(* to a sub-task is the workstream the sub-task requires.                  *)
C2_AssignedWorkstreamMatches ==
    HasSchedule =>
        \A t \in SubtaskIdx :
            personnel[solution.person[t]].workstream = all_subtasks[t].workstream

(* C3: if some scenario requires a workstream no person has, the           *)
(* no-solution result (empty table, None) is returned, never a schedule.   *)
C3_UnstaffedMeansNoSchedule ==
    (HasReturned /\ \E s \in ScenarioIdx : \E w \in RequiredBy(s) : Qualified(w) = {})
        => NoScheduleReturned

(* C4: in every returned schedule all sub-tasks of a scenario share its    *)
(* start and end, end - start is its duration, and the Start Time and End  *)
(* Time of the scenario's record are the reference date plus these         *)
(* offsets.                                                                *)
C4_SharedIntervalAndRecordTimes ==
    HasSchedule =>
        \A s \in all_end_vars :
            /\ \A t \in SubtaskIdx :
                  all_subtasks[t].scenario_idx = s
                      => /\ SubtaskStart(solution, t) = solution.start[s]
                         /\ SubtaskEnd(solution, t) = solution.end[s]
            /\ solution.end[s] - solution.start[s] = scenarios[s].duration_hours
            /\ \E k \in 1..Len(final_results) :
                  final_results[k].Scenario = scenarios[s].name
            /\ \A k \in 1..Len(final_results) :
                  final_results[k].Scenario = scenarios[s].name
                      => /\ OffsetOf(final_results[k].StartTime) = solution.start[s]
                         /\ OffsetOf(final_results[k].EndTime) = solution.end[s]

(* C5: whenever a schedule is returned, total_days * 24 is the maximum     *)
(* solved end offset over all scenarios of the input.                      *)
C5_TotalIsMaxEnd ==
    HasSchedule =>
        total_days.num * 24
            = total_days.den * SetMax({solution.end[s] : s \in ScenarioIdx})

(* C7: whenever a schedule is returned, its records correspond one to one  *)
(* to the input scenarios: each scenario, also one with an empty list of   *)
(* required workstreams, has its own record, and no record merges two.     *)
C7_OneRecordPerScenario ==
    HasSchedule =>
        /\ Len(final_results) = Len(scenarios)
        /\ \E f \in Permutations(ScenarioIdx) :
              \A s \in ScenarioIdx :
                  /\ final_results[f[s]].Scenario = scenarios[s].name
                  /\ Len(final_results[f[s]].AssignedPersons)
                        = Len(scenarios[s].required_workstreams)

(* C8: with an empty personnel or scenario list the error is signalled     *)
(* before any model is built or solved: the form never calls the solver    *)
(* with an empty list, and find_optimal_schedule itself neither builds     *)
(* variables nor invokes the solver on one.                                *)
C8_EmptyInputStopsBeforeModel ==
    (personnel = <<>> \/ ParseRows(rows) = <<>>)
        => /\ entry # "app"
           /\ pc \notin {"built", "solved"}

(* C9: k occurrences of one workstream in a scenario of at least one hour  *)
(* get k pairwise distinct persons in every returned schedule, and if      *)
(* fewer than k persons have that workstream no schedule is returned.      *)
C9_DistinctPersonsPerOccurrence ==
    /\ HasSchedule =>
          \A t1, t2 \in SubtaskIdx :
              (/\ t1 # t2
               /\ all_subtasks[t1].scenario_idx = all_subtasks[t2].scenario_idx
               /\ all_subtasks[t1].workstream = all_subtasks[t2].workstream
               /\ all_subtasks[t1].duration >= 1)
                  => solution.person[t1] # solution.person[t2]
    /\ (HasReturned
          /\ \E s \in ScenarioIdx : \E w \in RequiredBy(s) :
                /\ scenarios[s].duration_hours >= 1
                /\ Occurrences(s, w) >= 2
                /\ Cardinality(Qualified(w)) < Occurrences(s, w))
          => NoScheduleReturned

-----------------------------------------------------------------------------
(* C6: for the calibration input the least makespan of an assignment that  *)
(* satisfies the constraints is 18 hours (0.75 days): none ends before     *)
(* hour 18, and every one that ends at hour 18 staffs both scenarios'      *)
(* Finance slot with Alice and runs them back to back.                     *)

IsCalibration ==
    /\ personnel = default_personnel_data
    /\ scenarios = ParseRows(default_scenario_data)
    /\ pc \notin {"form", "called"}

\* Every assignment of the variables with all starts at most latest, whatever
\* person each sub-task gets.
AssignmentsUpTo(latest) ==
    {Assignment(st, pa) :
        st \in [ScenarioIdx -> earliest_start..latest],
        pa \in [SubtaskIdx -> PersonIdx]}

C6_CalibrationOptimum ==
    IsCalibration =>
        /\ \A a \in AssignmentsUpTo(18) :
              Satisfies(a) =>
                  /\ a.max_end_time >= 18
                  /\ a.max_end_time = 18 =>
                        /\ personnel[a.person[1]].name = "Alice"
                        /\ personnel[a.person[4]].name = "Alice"
                        /\ a.end[1] = a.start[2] \/ a.end[2] = a.start[1]
        /\ \E a \in AssignmentsUpTo(18) : Satisfies(a) /\ a.max_end_time = 18
        /\ HasReturned => total_days.num * 100 = 75 * total_days.den

\* The calibration schedule as returned: P2P first, Invoice Posting after it.
C6_Witness ==
    /\ IsCalibration
    /\ HasSchedule
    /\ solution.start = <<0, 12>>
    /\ solution.max_end_time = 18
    /\ Len(final_results) = 2
    /\ final_results[2].AssignedPersons = <<"Alice">>

-----------------------------------------------------------------------------
(* C10 *)

\* Every required workstream has a qualified person (and, so that nothing but
\* time can stand in the way, the model has a sub-task and no scenario asks
\* for more persons of a workstream than have it).
Staffable ==
    /\ all_subtasks # <<>>
    /\ \A t \in SubtaskIdx : all_subtasks[t].restricted
    /\ \A s \in ScenarioIdx : \A w \in RequiredBy(s) :
          Occurrences(s, w) <= Cardinality(valid_people_indices(w))

\* The hours one person must work in sequence: the scenarios requiring a
\* workstream that a single person index is allowed for.
SequentialLoad(w) ==
    LET needing == {s \in ScenarioIdx : w \in RequiredBy(s)}
        RECURSIVE Sum(_)
        Sum(S) == IF S = {} THEN 0
                  ELSE LET s == CHOOSE x \in S : TRUE
                       IN  scenarios[s].duration_hours + Sum(S \ {s})
    IN  IF Cardinality(valid_people_indices(w)) = 1 THEN Sum(needing) ELSE 0

\* No assignment can finish within the claimed horizon.
CannotFinishInHorizon ==
    \/ \E s \in ScenarioIdx : scenarios[s].duration_hours > ClaimedHorizon
    \/ \E s \in ScenarioIdx : \E w \in RequiredBy(s) :
          SequentialLoad(w) > ClaimedHorizon

(* C10 as claimed: every solved offset lies in [0, 1440] and the horizon   *)
(* is no deadline, so a staffable input yields a schedule even when its    *)
(* least makespan exceeds 1440 hours.                                      *)
C10_HorizonNotADeadline ==
    /\ HasSchedule =>
          \A s \in ScenarioIdx :
              /\ solution.start[s] \in 0..ClaimedHorizon
              /\ solution.end[s] \in 0..ClaimedHorizon
    /\ (HasReturned /\ Staffable) => HasSchedule

(* C10 as amended: every solved offset lies in [0, 1440] and the horizon   *)
(* is a hard deadline: a staffable input with a scenario longer than 1440  *)
(* hours, or with more than 1440 hours of scenarios that only one person   *)
(* can take, gets the no-solution result.                                  *)
C10_HorizonIsADeadline ==
    /\ HasSchedule =>
          \A s \in ScenarioIdx :
              /\ solution.start[s] \in 0..ClaimedHorizon
              /\ solution.end[s] \in 0..ClaimedHorizon
    /\ (HasReturned /\ Staffable /\ CannotFinishInHorizon) => NoScheduleReturned

\* Two scenarios that each fit the horizon, for one person, 1441 hours in all.
C10_Witness ==
    /\ NoScheduleReturned
    /\ Staffable
    /\ Len(scenarios) = 2
    /\ \A s \in ScenarioIdx : scenarios[s].duration_hours <= ClaimedHorizon
    /\ SequentialLoad("Finance") > ClaimedHorizon

====
